---- MODULE Spec2Model ----
(***************************************************************************)
(* Model of auto-git-commit.py: the pure helpers strip_quotes and          *)
(* filter_binary_diff, the command runner, and the main pipeline.          *)
(*                                                                         *)
(* Representation of Python values:                                        *)
(*   - a short str (a message, a command's stdout) is a sequence of        *)
(*     one-character strings;                                              *)
(*   - a diff text is the list its split("\n") yields, so it is never the  *)
(*     empty sequence: the empty text "" is <<"">>;                        *)
(*   - list indices are 1-based here and 0-based in the source.            *)
(***************************************************************************)
EXTENDS Integers, Sequences, FiniteSets, TLC

VARIABLES
    \* one call of strip_quotes, and a second call on its result
    qpc, text_in, stripped, restripped,
    \* one call of filter_binary_diff, and a second call on its result
    fpc, diff_in, filtered, refiltered

VARIABLES
    \* main: position, and the process's exit status (NoCode while running)
    pc, exit_code, uncaught,
    \* main's locals
    cwd, default_commit_msg, auto_push, changes, detailed_changes, detail_len,
    elided, commit_message, gemini_success, branch,
    \* the repository: the diff of all pending changes, and what is staged
    tree, index,
    \* what the run has done: the commands issued, what the generator process
    \* did and what subprocess.run made of it,
    \* the -m argument git commit received, the outcome of the commit, the
    \* branch a push named
    cmds, gen_run, gen_result, commit_arg, committed, push_ref,
    \* the results the run has seen: of the repository probe, of the first
    \* status query, of the generator probe and of the push
    seen

mainVars == <<pc, exit_code, uncaught, cwd, default_commit_msg, auto_push, changes,
              detailed_changes, detail_len, elided, commit_message, gemini_success,
              branch, tree, index, cmds, gen_run, gen_result, commit_arg, committed,
              push_ref, seen>>

quoteVars == <<qpc, text_in, stripped, restripped>>
filterVars == <<fpc, diff_in, filtered, refiltered>>
vars == <<mainVars, quoteVars, filterVars>>

\* ------------------------------------------------------------------ bounds

\* longest message given to strip_quotes
MaxLen == 4
\* most lines of a diff text given to filter_binary_diff
MaxLines == 4

\* ------------------------------------------------------------- characters

\* str.strip() with no argument removes these (the ones the model uses)
Whitespace == {" ", "\n"}

\* the three quote characters; the lexer of TLA+ cannot hold a backquote in a
\* string, so the token "bq" stands for that one character
SQ == "'"
DQ == "\""
BQ == "bq"

\* the characters the enumerated messages are drawn from
Chars == {" ", "a", SQ, DQ, BQ}

RECURSIVE SeqsUpTo(_, _)
SeqsUpTo(S, n) ==
    IF n = 0 THEN {<<>>}
    ELSE LET shorter == SeqsUpTo(S, n - 1)
         IN  shorter \cup {Append(s, c) : s \in {t \in shorter : Len(t) = n - 1}, c \in S}

Strings == SeqsUpTo(Chars, MaxLen)

\* ---------------------------------------------------------------- str ops

RECURSIVE lstrip(_)
lstrip(text) ==
    IF text # <<>> /\ Head(text) \in Whitespace THEN lstrip(Tail(text)) ELSE text

RECURSIVE rstrip(_)
rstrip(text) ==
    IF text # <<>> /\ text[Len(text)] \in Whitespace
    THEN rstrip(SubSeq(text, 1, Len(text) - 1))
    ELSE text

\* str.strip()
strip(text) == rstrip(lstrip(text))

\* str.startswith / str.endswith for a one-character argument
startswith(text, c) == Len(text) >= 1 /\ text[1] = c
endswith(text, c) == Len(text) >= 1 /\ text[Len(text)] = c

\* ----------------------------------------------------------- strip_quotes

\* line 108
quotes == <<SQ, DQ, BQ>>

\* lines 111-113 returning text[1:-1] without the strip() of line 113
strip_quotes_loop_untrimmed(text, k) ==
    IF \E q \in k..Len(quotes) :
          Len(text) >= 2 /\ startswith(text, quotes[q]) /\ endswith(text, quotes[q])
    THEN SubSeq(text, 2, Len(text) - 1)
    ELSE text

\* lines 111-115: the loop over quotes, from position k on
RECURSIVE strip_quotes_loop(_, _)
strip_quotes_loop(text, k) ==
    IF k > Len(quotes) THEN text
    ELSE IF Len(text) >= 2 /\ startswith(text, quotes[k]) /\ endswith(text, quotes[k])
         THEN strip(SubSeq(text, 2, Len(text) - 1))
         ELSE strip_quotes_loop(text, k + 1)

\* a strip_quotes that accepts any opening quote with any closing quote
strip_quotes_any_pair(text) ==
    IF text = <<>> THEN text
    ELSE LET t == strip(text)
             isq(c) == \E k \in 1..Len(quotes) : quotes[k] = c
         IN  IF Len(t) >= 2 /\ isq(t[1]) /\ isq(t[Len(t)])
             THEN strip(SubSeq(t, 2, Len(t) - 1))
             ELSE t

strip_quotes(text) ==
    IF text = <<>> THEN text
    ELSE strip_quotes_loop(strip(text), 1)

\* ----------------------------------------------------- filter_binary_diff

H1 == "diff --git a/x b/x"
H2 == "diff --git a/y b/y"
\* a header whose file names hold the words of the binary marker
HB == "diff --git a/Binary files b/differ"
BIN == "Binary files a/p.png and b/p.png differ"
TXT == "+foo"
EMPTYLINE == ""

DiffLines == {H1, H2, HB, BIN, TXT, EMPTYLINE}

\* line.startswith("diff --git")
IsHeader(line) == line \in {H1, H2, HB}
\* "Binary files" in line and "differ" in line
IsBinaryLine(line) == line \in {HB, BIN}

EmptyText == <<EMPTYLINE>>

\* str.split("\n") and "\n".join on the representation
split(text) == text
join(lines) == IF lines = <<>> THEN EmptyText ELSE lines

\* lines 145-149: from i, stop at the next header, at a binary marker or at
\* the end
RECURSIVE scan_block(_, _)
scan_block(lines, i) ==
    IF i <= Len(lines) /\ ~IsHeader(lines[i])
    THEN IF IsBinaryLine(lines[i])
         THEN [i |-> i, is_binary |-> TRUE]
         ELSE scan_block(lines, i + 1)
    ELSE [i |-> i, is_binary |-> FALSE]

\* lines 157-158 stepping over the marker line only
skip_block_marker_only(lines, i) ==
    IF i <= Len(lines) /\ ~IsHeader(lines[i]) THEN i + 1 ELSE i

\* lines 157-158
RECURSIVE skip_block(_, _)
skip_block(lines, i) ==
    IF i <= Len(lines) /\ ~IsHeader(lines[i]) THEN skip_block(lines, i + 1) ELSE i

\* lines 134-163: one pass of the outer loop from i
RECURSIVE filter_loop(_, _, _)
filter_loop(lines, i, filtered_lines) ==
    IF i > Len(lines) THEN filtered_lines
    ELSE IF IsHeader(lines[i])
         THEN LET block_start == i
                  s == scan_block(lines, i + 1)
              IN  IF ~s.is_binary
                  THEN \* lines 153-154, then line 163
                       filter_loop(lines, s.i + 1,
                                   filtered_lines \o SubSeq(lines, block_start, s.i - 1))
                  ELSE \* lines 157-159, then line 163
                       filter_loop(lines, (skip_block(lines, s.i) - 1) + 1, filtered_lines)
         ELSE filter_loop(lines, i + 1, Append(filtered_lines, lines[i]))

filter_binary_diff(diff_text) ==
    IF diff_text = EmptyText THEN diff_text
    ELSE join(filter_loop(split(diff_text), 1, <<>>))

DiffTexts == SeqsUpTo(DiffLines, MaxLines) \ {<<>>}

\* ------------------------------------------------------------ run_command

\* what subprocess.run did: raised, or returned a code and a stdout
Raised == [raised |-> TRUE, returncode |-> 1, stdout |-> <<>>]
ProcResults(outs) ==
    {Raised} \cup {[raised |-> FALSE, returncode |-> rc, stdout |-> o] : rc \in {0, 1}, o \in outs}

\* lines 183-197, capture_output=True, for a short stdout
run_command(res) ==
    IF res.raised
    THEN [success |-> FALSE, stdout |-> <<>>]
    ELSE [success |-> res.returncode = 0, stdout |-> strip(res.stdout)]

\* lines 193-195, capture_output=False
run_command_nocapture(res) ==
    IF res.raised
    THEN [success |-> FALSE, stdout |-> <<>>]
    ELSE [success |-> res.returncode = 0, stdout |-> <<>>]

\* str.strip() on a text held as its lines, none of which begins or ends with
\* whitespace: the empty lines at both ends go
RECURSIVE strip_text(_)
strip_text(lines) ==
    IF Len(lines) > 1 /\ lines[1] = EMPTYLINE THEN strip_text(Tail(lines))
    ELSE IF Len(lines) > 1 /\ lines[Len(lines)] = EMPTYLINE
         THEN strip_text(SubSeq(lines, 1, Len(lines) - 1))
         ELSE lines

\* lines 183-192 for git diff --cached, whose stdout is a diff text
run_command_text(res) ==
    IF res.raised
    THEN [success |-> FALSE, stdout |-> EmptyText]
    ELSE [success |-> res.returncode = 0, stdout |-> strip_text(res.stdout)]

\* ------------------------------------------------ shlex.quote and the shell

\* a character of a Japanese word
JP == "jp"
\* the characters of the model that match [\w@%+=:,./-] under re.ASCII
SafeChars == {"a", "c", "h", "o", "r", "e", ":", "C", "l", "u", "d"}

RECURSIVE replace_quote(_)
replace_quote(s) ==
    IF s = <<>> THEN <<>>
    ELSE (IF Head(s) = SQ THEN <<SQ, DQ, SQ, DQ, SQ>> ELSE <<Head(s)>>) \o replace_quote(Tail(s))

\* a quote that wraps the text and leaves its single quotes as they are
shlex_quote_naive(s) ==
    IF s = <<>> THEN <<SQ, SQ>>
    ELSE IF \A k \in 1..Len(s) : s[k] \in SafeChars THEN s
    ELSE <<SQ>> \o s \o <<SQ>>

\* shlex.quote
shlex_quote(s) ==
    IF s = <<>> THEN <<SQ, SQ>>
    ELSE IF \A k \in 1..Len(s) : s[k] \in SafeChars THEN s
    ELSE <<SQ>> \o replace_quote(s) \o <<SQ>>

\* /bin/sh reading the rest of the command line "git commit -m <w>": the one
\* argument it hands to git, or not ok when w is not one plain word (an
\* unquoted blank or backquote, an open quote)
RECURSIVE sh_word(_, _, _)
sh_word(w, mode, arg) ==
    IF w = <<>> THEN [ok |-> mode = "plain", arg |-> arg]
    ELSE LET c == Head(w)
             rest == Tail(w)
         IN  CASE mode = "plain" /\ c = SQ -> sh_word(rest, "single", arg)
               [] mode = "plain" /\ c = DQ -> sh_word(rest, "double", arg)
               [] mode = "plain" /\ c \in Whitespace \cup {BQ} -> [ok |-> FALSE, arg |-> arg]
               [] mode = "single" /\ c = SQ -> sh_word(rest, "plain", arg)
               [] mode = "double" /\ c = DQ -> sh_word(rest, "plain", arg)
               [] mode = "double" /\ c = BQ -> [ok |-> FALSE, arg |-> arg]
               [] OTHER -> sh_word(rest, mode, Append(arg, c))

\* line 342-343: the argument git commit receives for a message
commit_argument(message) == sh_word(shlex_quote(message), "plain", <<>>)

\* -------------------------------------------------------------- constants

\* line 88; JP stands for each character of the Japanese words that follow
DEFAULT_COMMIT_MESSAGE ==
    <<"c", "h", "o", "r", "e", ":", " ", "C", "l", "a", "u", "d", "e", " ",
      "C", "o", "d", "e", JP, JP>>

\* line 282
MaxDetailChars == 5000
\* line 283: len("\n\n[... " + 4 characters + " ...]")
ElisionMarkerLen == 16

\* os.environ.get(name, default)
Unset == [set |-> FALSE, value |-> <<>>]
environ_get(env, default) == IF env.set THEN env.value ELSE default

\* --------------------------------------------------------- the repository

\* a line of 5000 characters: "+" and 4999 more
LONGLINE == "+long"
\* a line of 4981 characters: with a header of 18 and a newline, 5000
EXACTLINE == "+exact"

LineLen(line) ==
    CASE line = H1 -> 18
      [] line = H2 -> 18
      [] line = HB -> 34
      [] line = BIN -> 39
      [] line = TXT -> 4
      [] line = EMPTYLINE -> 0
      [] line = LONGLINE -> 5000
      [] line = EXACTLINE -> 4981

\* len() of a text held as its lines: the lines and the newlines between them
RECURSIVE text_len(_)
text_len(lines) ==
    IF Len(lines) = 1 THEN LineLen(lines[1])
    ELSE LineLen(lines[1]) + 1 + text_len(Tail(lines))

\* what "git diff" prints for the pending changes of the modelled repositories
\* (a clean tree prints nothing): two files each
Trees ==
    {EmptyText,
     <<H1, TXT, H2, BIN, EMPTYLINE>>,
     <<H1, TXT, H2, TXT, EMPTYLINE>>,
     <<H1, TXT, H2, LONGLINE, EMPTYLINE>>,
     <<H1, BIN, H2, EXACTLINE, EMPTYLINE>>}

\* the first file alone, and the second file alone
FirstFile(t) == <<t[1], t[2], EMPTYLINE>>
SecondFile(t) == <<t[3], t[4], EMPTYLINE>>

\* stdout of git diff --cached
StagedDiff(t, ix) ==
    CASE ix = "none" -> EmptyText
      [] ix = "subset" -> FirstFile(t)
      [] ix = "all" -> t

\* stdout of git diff --cached --stat
StagedStat(ix) ==
    CASE ix = "none" -> <<>>
      [] ix = "subset" -> <<" ", "x", " ", "|", " ", "1", "\n">>
      [] ix = "all" -> <<" ", "x", " ", "|", " ", "1", "\n", " ", "y", " ", "|", " ", "1", "\n">>

\* stdout of git status --porcelain
StatusOutput(t) == IF t = EmptyText THEN <<>> ELSE <<" ", "M", " ", "x", "\n">>

\* git commit refuses an empty index and a message that is blank
CanCommit(ix, argument) ==
    ix # "none" /\ argument.ok /\ strip(argument.arg) # <<>>

\* what is left pending once the index ix is committed
AfterCommit(t, ix) == IF ix = "subset" THEN SecondFile(t) ELSE EmptyText

\* ------------------------------------------------------------------- main

NoCode == 0 - 1

\* sys.exit(code), and an exception nothing catches (the interpreter prints
\* the traceback and exits with status 1)
Exit(code) ==
    /\ pc' = "exited"
    /\ exit_code' = code
    /\ uncaught' = FALSE
    /\ UNCHANGED <<quoteVars, filterVars>>

Crash ==
    /\ pc' = "exited"
    /\ exit_code' = 1
    /\ uncaught' = TRUE
    /\ UNCHANGED <<quoteVars, filterVars>>

Goto(label) ==
    /\ pc' = label
    /\ UNCHANGED <<exit_code, uncaught, quoteVars, filterVars>>

Issued(c) == cmds' = Append(cmds, c)

\* values of CLAUDE_CODE_DEFAULT_COMMIT_MESSAGE and CLAUDE_CODE_AUTO_PUSH
EnvMessages == {Unset} \cup {[set |-> TRUE, value |-> v] : v \in {<<>>, <<"a", " ", "a">>}}
EnvPush == {Unset} \cup {[set |-> TRUE, value |-> v] : v \in {<<"0">>, <<"1">>}}

\* standard input: bytes that do not decode, text that is no JSON, a JSON
\* value that is no object, an object without cwd, an object with cwd
NotAStr == "<null>"
Payloads ==
    {[kind |-> k, cwd |-> "."] : k \in {"undecodable", "unparsable", "not_object", "no_cwd"}}
        \cup {[kind |-> "cwd", cwd |-> d] : d \in {"/repo", "/missing", NotAStr}}
ExistingDirs == {".", "/repo"}

\* lines 228-232
input_cwd(payload) ==
    IF payload.kind \in {"unparsable", "not_object"} THEN "."
    ELSE IF payload.kind = "cwd" THEN payload.cwd ELSE "."

NoRun == [error |-> FALSE, returns |-> FALSE, elapsed |-> 0, returncode |-> 0, stdout |-> <<>>]
NotRun == [raised |-> "not_run", returncode |-> 0, stdout |-> <<>>]
NothingSeen == [repo |-> "none", status |-> "none", gemini |-> "none", stat |-> "none", branch |-> "none", push |-> "none"]
Outcome(ok) == IF ok THEN "ok" ELSE "failed"

MainInit ==
    /\ pc = "start"
    /\ exit_code = NoCode
    /\ uncaught = FALSE
    /\ cwd = "."
    /\ default_commit_msg = <<>>
    /\ auto_push = FALSE
    /\ changes = <<>>
    /\ detailed_changes = EmptyText
    /\ detail_len = 0
    /\ elided = FALSE
    /\ commit_message = <<>>
    /\ gemini_success = FALSE
    /\ branch = <<>>
    /\ tree \in Trees
    /\ index \in IF tree = EmptyText THEN {"none"} ELSE {"none", "subset", "all"}
    /\ cmds = <<>>
    /\ gen_run = NoRun
    /\ gen_result = NotRun
    /\ commit_arg = [ok |-> FALSE, arg |-> <<>>]
    /\ committed = FALSE
    /\ push_ref = <<>>
    /\ seen = NothingSeen

MainIdle ==
    /\ pc = "idle"
    /\ exit_code = NoCode
    /\ uncaught = FALSE
    /\ cwd = "."
    /\ default_commit_msg = <<>>
    /\ auto_push = FALSE
    /\ changes = <<>>
    /\ detailed_changes = EmptyText
    /\ detail_len = 0
    /\ elided = FALSE
    /\ commit_message = <<>>
    /\ gemini_success = FALSE
    /\ branch = <<>>
    /\ tree = EmptyText
    /\ index = "none"
    /\ cmds = <<>>
    /\ gen_run = NoRun
    /\ gen_result = NotRun
    /\ commit_arg = [ok |-> FALSE, arg |-> <<>>]
    /\ committed = FALSE
    /\ push_ref = <<>>
    /\ seen = NothingSeen

\* lines 214-223
Start ==
    /\ pc = "start"
    /\ \E env_msg \in EnvMessages, env_push \in EnvPush :
          /\ default_commit_msg' = environ_get(env_msg, DEFAULT_COMMIT_MESSAGE)
          /\ auto_push' = (environ_get(env_push, <<"0">>) = <<"1">>)
    /\ Goto("read_input")
    /\ UNCHANGED <<cwd, changes, detailed_changes, detail_len, elided, commit_message,
                   gemini_success, branch, tree, index, cmds, gen_run, gen_result, commit_arg,
                   committed, push_ref,
                   seen>>

\* lines 226-235
ReadInput ==
    /\ pc = "read_input"
    /\ \E payload \in Payloads :
          IF payload.kind = "undecodable"
          THEN Crash /\ UNCHANGED cwd
          ELSE /\ cwd' = input_cwd(payload)
               /\ IF cwd' \in ExistingDirs THEN Goto("check_repo") ELSE Crash
    /\ UNCHANGED <<default_commit_msg, auto_push, changes, detailed_changes, detail_len,
                   elided, commit_message, gemini_success, branch, tree, index, cmds,
                   gen_run, gen_result, commit_arg, committed, push_ref,
                   seen>>

\* lines 238-241
CheckRepo ==
    /\ pc = "check_repo"
    /\ Issued("git rev-parse --git-dir")
    /\ \E res \in ProcResults({<<".", "g", "i", "t", "\n">>}) :
          /\ seen' = [seen EXCEPT !.repo = Outcome(run_command(res).success)]
          /\ IF ~run_command(res).success THEN Exit(1) ELSE Goto("check_changes")
    /\ UNCHANGED <<cwd, default_commit_msg, auto_push, changes, detailed_changes,
                   detail_len, elided, commit_message, gemini_success, branch, tree, index,
                   gen_run, gen_result, commit_arg, committed, push_ref>>

\* a CheckChanges that tests success where line 245 tests output
CheckChangesOnSuccess ==
    /\ pc = "check_changes"
    /\ Issued("git status --porcelain")
    /\ \E res \in ProcResults({StatusOutput(tree)}) :
          /\ seen' = [seen EXCEPT !.status = IF \A k \in 1..Len(res.stdout) :
                                                     res.stdout[k] \in Whitespace
                                              THEN "clean" ELSE "pending"]
          /\ IF ~run_command(res).success THEN Exit(0) ELSE Goto("check_gemini")
    /\ UNCHANGED <<cwd, default_commit_msg, auto_push, changes, detailed_changes,
                   detail_len, elided, commit_message, gemini_success, branch, tree, index,
                   gen_run, gen_result, commit_arg, committed, push_ref>>

\* lines 244-247
CheckChanges ==
    /\ pc = "check_changes"
    /\ Issued("git status --porcelain")
    /\ \E res \in ProcResults({StatusOutput(tree)}) :
          /\ seen' = [seen EXCEPT !.status = IF \A k \in 1..Len(res.stdout) :
                                                     res.stdout[k] \in Whitespace
                                              THEN "clean" ELSE "pending"]
          /\ IF run_command(res).stdout = <<>> THEN Exit(0) ELSE Goto("check_gemini")
    /\ UNCHANGED <<cwd, default_commit_msg, auto_push, changes, detailed_changes,
                   detail_len, elided, commit_message, gemini_success, branch, tree, index,
                   gen_run, gen_result, commit_arg, committed, push_ref>>

\* a CheckGemini that goes on without the generator
CheckGeminiNotFatal ==
    /\ pc = "check_gemini"
    /\ Issued("command -v gemini")
    /\ \E res \in ProcResults({<<"/", "g", "\n">>, <<>>}) :
          /\ seen' = [seen EXCEPT !.gemini = Outcome(run_command(res).success)]
          /\ Goto("diff_stat")
    /\ UNCHANGED <<cwd, default_commit_msg, auto_push, changes, detailed_changes,
                   detail_len, elided, commit_message, gemini_success, branch, tree, index,
                   gen_run, gen_result, commit_arg, committed, push_ref>>

\* lines 250-256
CheckGemini ==
    /\ pc = "check_gemini"
    /\ Issued("command -v gemini")
    /\ \E res \in ProcResults({<<"/", "g", "\n">>, <<>>}) :
          /\ seen' = [seen EXCEPT !.gemini = Outcome(run_command(res).success)]
          /\ IF ~run_command(res).success THEN Exit(1) ELSE Goto("diff_stat")
    /\ UNCHANGED <<cwd, default_commit_msg, auto_push, changes, detailed_changes,
                   detail_len, elided, commit_message, gemini_success, branch, tree, index,
                   gen_run, gen_result, commit_arg, committed, push_ref>>

\* lines 259-261 with the test of line 261 taken as always true
DiffStatAlwaysStage ==
    /\ pc = "diff_stat"
    /\ Issued("git diff --cached --stat")
    /\ \E res \in ProcResults({StagedStat(index)}) :
          /\ changes' = run_command(res).stdout
          /\ seen' = [seen EXCEPT !.stat = IF changes' = <<>> THEN "empty" ELSE "nonempty"]
          /\ Goto("stage_all")
    /\ UNCHANGED <<cwd, default_commit_msg, auto_push, detailed_changes, detail_len,
                   elided, commit_message, gemini_success, branch, tree, index, gen_run, gen_result,
                   commit_arg, committed, push_ref>>

\* lines 259-261: the staged summary is queried and staging follows only when
\* the query's output is empty
DiffStat ==
    /\ pc = "diff_stat"
    /\ Issued("git diff --cached --stat")
    /\ \E res \in ProcResults({StagedStat(index)}) :
          /\ changes' = run_command(res).stdout
          /\ seen' = [seen EXCEPT !.stat = IF changes' = <<>> THEN "empty" ELSE "nonempty"]
          /\ IF changes' = <<>> THEN Goto("stage_all") ELSE Goto("diff")
    /\ UNCHANGED <<cwd, default_commit_msg, auto_push, detailed_changes, detail_len,
                   elided, commit_message, gemini_success, branch, tree, index, gen_run, gen_result,
                   commit_arg, committed, push_ref>>

\* lines 263-264: git add -A stages every pending change when it succeeds
StageAll ==
    /\ pc = "stage_all"
    /\ cmds' = cmds \o <<"git add -A", "git diff --cached --stat">>
    /\ \E add \in ProcResults({<<>>}) :
          /\ index' = IF run_command_nocapture(add).success /\ tree # EmptyText
                       THEN "all" ELSE index
          /\ \E res \in ProcResults({StagedStat(index')}) :
                changes' = run_command(res).stdout
    /\ Goto("diff")
    /\ UNCHANGED <<cwd, default_commit_msg, auto_push, detailed_changes, detail_len,
                   elided, commit_message, gemini_success, branch, tree, gen_run, gen_result,
                   commit_arg, committed, push_ref,
                   seen>>

\* the longest stdout of the generator
MaxOut == 3

\* line 312, in seconds
GeneratorTimeout == 25

\* what the generator process does: it cannot be started or read (error), or
\* it runs and never exits by itself, or it exits after elapsed seconds with
\* a status and a stdout
GenRuns ==
    {[error |-> TRUE, returns |-> FALSE, elapsed |-> 0, returncode |-> 1, stdout |-> <<>>],
     [error |-> FALSE, returns |-> FALSE, elapsed |-> 0, returncode |-> 0, stdout |-> <<>>],
     [error |-> FALSE, returns |-> TRUE, elapsed |-> GeneratorTimeout + 1, returncode |-> 0,
      stdout |-> <<"a">>]}
        \cup {[error |-> FALSE, returns |-> TRUE, elapsed |-> GeneratorTimeout - 1,
               returncode |-> 1, stdout |-> o] : o \in {<<>>, <<"a">>}}
        \cup {[error |-> FALSE, returns |-> TRUE, elapsed |-> GeneratorTimeout - 1,
               returncode |-> 0, stdout |-> o] : o \in SeqsUpTo(Chars, MaxOut)}

\* lines 308-313: subprocess.run(..., capture_output=True, text=True,
\* timeout=timeout) kills a process that is still running at the timeout
subprocess_run(run, timeout) ==
    IF run.error THEN [raised |-> "Exception", returncode |-> 1, stdout |-> <<>>]
    ELSE IF ~run.returns \/ run.elapsed > timeout
         THEN [raised |-> "TimeoutExpired", returncode |-> 1, stdout |-> <<>>]
         ELSE [raised |-> "none", returncode |-> run.returncode, stdout |-> run.stdout]

\* what subprocess.run(["gemini", ...], timeout=25) did
GenResults == {subprocess_run(run, GeneratorTimeout) : run \in GenRuns}

\* lines 270-287 with the test of line 282 made on the text before line 275
DiffBoundBeforeFilter ==
    /\ pc = "diff"
    /\ Issued("git diff --cached")
    /\ \E res \in ProcResults({StagedDiff(tree, index)}) :
          /\ detailed_changes' = filter_binary_diff(run_command_text(res).stdout)
          /\ elided' = (text_len(run_command_text(res).stdout) > MaxDetailChars)
    /\ detail_len' = IF elided' THEN MaxDetailChars + ElisionMarkerLen
                                ELSE text_len(detailed_changes')
    /\ Goto("build_prompt")
    /\ UNCHANGED <<cwd, default_commit_msg, auto_push, changes, commit_message,
                   gemini_success, branch, tree, index, gen_run, gen_result, commit_arg, committed,
                   push_ref,
                   seen>>

\* lines 270-287; detailed_changes holds the filtered text, detail_len and
\* elided the length and the marker of what line 283 makes of it
Diff ==
    /\ pc = "diff"
    /\ Issued("git diff --cached")
    /\ \E res \in ProcResults({StagedDiff(tree, index)}) :
          detailed_changes' = filter_binary_diff(run_command_text(res).stdout)
    /\ elided' = (text_len(detailed_changes') > MaxDetailChars)
    /\ detail_len' = IF elided' THEN MaxDetailChars + ElisionMarkerLen
                                ELSE text_len(detailed_changes')
    /\ Goto("build_prompt")
    /\ UNCHANGED <<cwd, default_commit_msg, auto_push, changes, commit_message,
                   gemini_success, branch, tree, index, gen_run, gen_result, commit_arg, committed,
                   push_ref,
                   seen>>

\* lines 290-308; gen_run is what the generator process started at line 308
\* is going to do
BuildPrompt ==
    /\ pc = "build_prompt"
    /\ commit_message' = default_commit_msg
    /\ gemini_success' = FALSE
    /\ gen_run' \in GenRuns
    /\ Goto("generate")
    /\ UNCHANGED <<cwd, default_commit_msg, auto_push, changes, detailed_changes,
                   detail_len, elided, branch, tree, index, cmds, gen_result, commit_arg,
                   committed, push_ref,
                   seen>>

\* a Generate that takes any non-blank stdout, whatever the exit status
GenerateIgnoringStatus ==
    /\ pc = "generate"
    /\ Issued("gemini")
    /\ gen_result' = subprocess_run(gen_run, GeneratorTimeout)
    /\ LET g == gen_result'
       IN  IF g.raised = "none" /\ strip(g.stdout) # <<>>
             THEN /\ commit_message' = strip_quotes(strip(g.stdout))
                  /\ gemini_success' = TRUE
             ELSE UNCHANGED <<commit_message, gemini_success>>
    /\ Goto("commit")
    /\ UNCHANGED <<cwd, default_commit_msg, auto_push, changes, detailed_changes,
                   detail_len, elided, branch, tree, index, gen_run, commit_arg, committed,
                   push_ref, seen>>

\* a Generate that tests stdout where line 315 tests stdout.strip()
GenerateUntrimmedTest ==
    /\ pc = "generate"
    /\ Issued("gemini")
    /\ gen_result' = subprocess_run(gen_run, GeneratorTimeout)
    /\ LET g == gen_result'
       IN  IF g.raised = "none" /\ g.returncode = 0 /\ g.stdout # <<>>
             THEN /\ commit_message' = strip_quotes(strip(g.stdout))
                  /\ gemini_success' = TRUE
             ELSE UNCHANGED <<commit_message, gemini_success>>
    /\ Goto("commit")
    /\ UNCHANGED <<cwd, default_commit_msg, auto_push, changes, detailed_changes,
                   detail_len, elided, branch, tree, index, gen_run, commit_arg, committed,
                   push_ref, seen>>

\* a Generate that calls the generator a second time after a fallback
GenerateRetrying ==
    /\ pc = "generate"
    /\ Issued("gemini")
    /\ gen_result' = subprocess_run(gen_run, GeneratorTimeout)
    /\ LET g == gen_result'
       IN  IF g.raised = "none" /\ g.returncode = 0 /\ strip(g.stdout) # <<>>
             THEN /\ commit_message' = strip_quotes(strip(g.stdout))
                  /\ gemini_success' = TRUE
                  /\ Goto("commit")
             ELSE /\ UNCHANGED <<commit_message, gemini_success>>
                  /\ IF \E k \in 1..Len(cmds) : cmds[k] = "gemini"
                     THEN Goto("commit") ELSE Goto("generate")
    /\ UNCHANGED <<cwd, default_commit_msg, auto_push, changes, detailed_changes,
                   detail_len, elided, branch, tree, index, gen_run, commit_arg, committed,
                   push_ref,
                   seen>>

\* a Generate that waits for the process without the timeout of line 312
GenerateWithoutTimeout ==
    /\ pc = "generate"
    /\ gen_run.error \/ gen_run.returns
    /\ Issued("gemini")
    /\ gen_result' = subprocess_run(gen_run, gen_run.elapsed)
    /\ LET g == gen_result'
       IN  IF g.raised = "none" /\ g.returncode = 0 /\ strip(g.stdout) # <<>>
             THEN /\ commit_message' = strip_quotes(strip(g.stdout))
                  /\ gemini_success' = TRUE
             ELSE UNCHANGED <<commit_message, gemini_success>>
    /\ Goto("commit")
    /\ UNCHANGED <<cwd, default_commit_msg, auto_push, changes, detailed_changes,
                   detail_len, elided, branch, tree, index, gen_run, commit_arg, committed,
                   push_ref,
                   seen>>

\* lines 303-338: the call returns when the process ends, when it cannot be
\* started, or when the timeout of line 312 stops it
Generate ==
    /\ pc = "generate"
    /\ Issued("gemini")
    /\ gen_result' = subprocess_run(gen_run, GeneratorTimeout)
    /\ LET g == gen_result'
       IN  IF g.raised = "none" /\ g.returncode = 0 /\ strip(g.stdout) # <<>>
             THEN /\ commit_message' = strip_quotes(strip(g.stdout))
                  /\ gemini_success' = TRUE
             ELSE UNCHANGED <<commit_message, gemini_success>>
    /\ Goto("commit")
    /\ UNCHANGED <<cwd, default_commit_msg, auto_push, changes, detailed_changes,
                   detail_len, elided, branch, tree, index, gen_run, commit_arg, committed,
                   push_ref,
                   seen>>

\* a Commit whose failure is followed by the steps of lines 345-377
CommitFailureContinues ==
    /\ pc = "commit"
    /\ Issued("git commit -m")
    /\ commit_arg' = commit_argument(commit_message)
    /\ \E res \in ProcResults({<<>>}) :
          /\ run_command(res).success => CanCommit(index, commit_arg')
          /\ committed' = run_command(res).success
          /\ IF committed'
             THEN /\ index' = "none"
                  /\ tree' = AfterCommit(tree, index)
                  /\ Goto("log")
             ELSE /\ UNCHANGED <<tree, index>>
                  /\ Goto("log")
    /\ UNCHANGED <<cwd, default_commit_msg, auto_push, changes, detailed_changes,
                   detail_len, elided, commit_message, gemini_success, branch, gen_run, gen_result,
                   push_ref,
                   seen>>

\* lines 342-344 and 386-388
Commit ==
    /\ pc = "commit"
    /\ Issued("git commit -m")
    /\ commit_arg' = commit_argument(commit_message)
    /\ \E res \in ProcResults({<<>>}) :
          /\ run_command(res).success => CanCommit(index, commit_arg')
          /\ committed' = run_command(res).success
          /\ IF committed'
             THEN /\ index' = "none"
                  /\ tree' = AfterCommit(tree, index)
                  /\ Goto("log")
             ELSE /\ UNCHANGED <<tree, index>>
                  /\ Exit(1)
    /\ UNCHANGED <<cwd, default_commit_msg, auto_push, changes, detailed_changes,
                   detail_len, elided, commit_message, gemini_success, branch, gen_run, gen_result,
                   push_ref,
                   seen>>

\* lines 345-352
LogLine ==
    /\ pc = "log"
    /\ Issued("git log -1 --oneline")
    /\ Goto("remaining")
    /\ UNCHANGED <<cwd, default_commit_msg, auto_push, changes, detailed_changes,
                   detail_len, elided, commit_message, gemini_success, branch, tree, index,
                   gen_run, gen_result, commit_arg, committed, push_ref,
                   seen>>

\* lines 355-362
Remaining ==
    /\ pc = "remaining"
    /\ \E res \in ProcResults({StatusOutput(tree)}) :
          cmds' = IF run_command(res).stdout # <<>>
                  THEN cmds \o <<"git status --porcelain", "git status --short">>
                  ELSE Append(cmds, "git status --porcelain")
    /\ IF auto_push THEN Goto("branch") ELSE Goto("finish")
    /\ UNCHANGED <<cwd, default_commit_msg, auto_push, changes, detailed_changes,
                   detail_len, elided, commit_message, gemini_success, branch, tree, index,
                   gen_run, gen_result, commit_arg, committed, push_ref,
                   seen>>

\* lines 367-368 and 376-377
Branch ==
    /\ pc = "branch"
    /\ Issued("git branch --show-current")
    /\ \E res \in ProcResults({<<"m", "\n">>, <<>>}) :
          /\ branch' = run_command(res).stdout
          /\ seen' = [seen EXCEPT !.branch = Outcome(run_command(res).success)]
          /\ IF run_command(res).success /\ branch' # <<>>
             THEN Goto("push") ELSE Goto("finish")
    /\ UNCHANGED <<cwd, default_commit_msg, auto_push, changes, detailed_changes,
                   detail_len, elided, commit_message, gemini_success, tree, index,
                   gen_run, gen_result, commit_arg, committed, push_ref>>

\* a Push whose failure ends the run with status 1
PushFatal ==
    /\ pc = "push"
    /\ Issued("git push origin")
    /\ push_ref' = branch
    /\ \E res \in ProcResults({<<>>}) :
          /\ seen' = [seen EXCEPT !.push = Outcome(run_command(res).success)]
          /\ IF run_command(res).success THEN Goto("finish") ELSE Exit(1)
    /\ UNCHANGED <<cwd, default_commit_msg, auto_push, changes, detailed_changes,
                   detail_len, elided, commit_message, gemini_success, branch, tree, index,
                   gen_run, gen_result, commit_arg, committed>>

\* lines 370-375: whatever the push does, the run goes on
Push ==
    /\ pc = "push"
    /\ Issued("git push origin")
    /\ push_ref' = branch
    /\ \E res \in ProcResults({<<>>}) :
          /\ seen' = [seen EXCEPT !.push = Outcome(run_command(res).success)]
          /\ IF run_command(res).success THEN Goto("finish") ELSE Goto("finish")
    /\ UNCHANGED <<cwd, default_commit_msg, auto_push, changes, detailed_changes,
                   detail_len, elided, commit_message, gemini_success, branch, tree, index,
                   gen_run, gen_result, commit_arg, committed>>

\* a Finish that reports success whenever the commit was made
FinishAlwaysZero ==
    /\ pc = "finish"
    /\ Exit(0)
    /\ UNCHANGED <<cwd, default_commit_msg, auto_push, changes, detailed_changes,
                   detail_len, elided, commit_message, gemini_success, branch, tree, index,
                   cmds, gen_run, gen_result, commit_arg, committed, push_ref, seen>>

\* lines 380-385, and the return of main
Finish ==
    /\ pc = "finish"
    /\ IF ~gemini_success THEN Exit(1) ELSE Exit(0)
    /\ UNCHANGED <<cwd, default_commit_msg, auto_push, changes, detailed_changes,
                   detail_len, elided, commit_message, gemini_success, branch, tree, index,
                   cmds, gen_run, gen_result, commit_arg, committed, push_ref,
                   seen>>

\* ------------------------------------------- the helpers, called on inputs

QuotesIdle ==
    /\ qpc = "idle"
    /\ text_in = <<>>
    /\ stripped = <<>>
    /\ restripped = <<>>

FilterIdle ==
    /\ fpc = "idle"
    /\ diff_in = EmptyText
    /\ filtered = EmptyText
    /\ refiltered = EmptyText

\* text = any message; then strip_quotes(text); then strip_quotes of that
StripOnce ==
    /\ qpc = "input"
    /\ stripped' = strip_quotes(text_in)
    /\ qpc' = "stripped"
    /\ UNCHANGED <<text_in, restripped, mainVars, filterVars>>

StripAgain ==
    /\ qpc = "stripped"
    /\ restripped' = strip_quotes(stripped)
    /\ qpc' = "restripped"
    /\ UNCHANGED <<text_in, stripped, mainVars, filterVars>>

\* diff_in = any diff; then filter_binary_diff(diff_in); then again
FilterOnce ==
    /\ fpc = "input"
    /\ filtered' = filter_binary_diff(diff_in)
    /\ fpc' = "filtered"
    /\ UNCHANGED <<diff_in, refiltered, mainVars, quoteVars>>

FilterAgain ==
    /\ fpc = "filtered"
    /\ refiltered' = filter_binary_diff(filtered)
    /\ fpc' = "refiltered"
    /\ UNCHANGED <<diff_in, filtered, mainVars, quoteVars>>

\* ---------------------------------------------------------- specifications

\* one run of main
Init == MainInit /\ QuotesIdle /\ FilterIdle

Next ==
    \/ Start
    \/ ReadInput
    \/ CheckRepo
    \/ CheckChanges
    \/ CheckGemini
    \/ DiffStat
    \/ StageAll
    \/ Diff
    \/ BuildPrompt
    \/ Generate
    \/ Commit
    \/ LogLine
    \/ Remaining
    \/ Branch
    \/ Push
    \/ Finish

Spec == Init /\ [][Next]_vars

\* the runs on a clean repository and on one with a textual and a binary file
\* pending and nothing staged; the interpreter keeps executing main: a step
\* that can be taken is taken
InitLive ==
    /\ Init
    /\ tree \in {EmptyText, <<H1, TXT, H2, BIN, EMPTYLINE>>}
    /\ index = "none"
SpecLive == InitLive /\ [][Next]_vars /\ WF_vars(Next)

\* strip_quotes on every message of up to MaxLen characters
InitQuotes ==
    /\ MainIdle
    /\ FilterIdle
    /\ qpc = "input"
    /\ text_in \in Strings
    /\ stripped = <<>>
    /\ restripped = <<>>

NextQuotes == StripOnce \/ StripAgain

SpecQuotes == InitQuotes /\ [][NextQuotes]_vars

\* filter_binary_diff on every diff text of up to MaxLines lines
InitFilter ==
    /\ MainIdle
    /\ QuotesIdle
    /\ fpc = "input"
    /\ diff_in \in DiffTexts
    /\ filtered = EmptyText
    /\ refiltered = EmptyText

NextFilter == FilterOnce \/ FilterAgain

SpecFilter == InitFilter /\ [][NextFilter]_vars

\* ------------------------------------------------------- claims about main

Has(c) == \E k \in 1..Len(cmds) : cmds[k] = c
Count(c) == Cardinality({k \in 1..Len(cmds) : cmds[k] = c})

\* the generator call fell back: it timed out, raised, exited nonzero, or
\* printed nothing but whitespace
TimedOut == gen_result.raised = "TimeoutExpired"
RaisedOther == gen_result.raised = "Exception"
NonzeroExit == gen_result.raised = "none" /\ gen_result.returncode # 0
BlankOutput ==
    /\ gen_result.raised = "none"
    /\ gen_result.returncode = 0
    /\ \A k \in 1..Len(gen_result.stdout) : gen_result.stdout[k] \in Whitespace
FellBack == TimedOut \/ RaisedOther \/ NonzeroExit \/ BlankOutput

\* the generator exited 0 with some non-whitespace output
Generated ==
    /\ gen_result.raised = "none"
    /\ gen_result.returncode = 0
    /\ \E k \in 1..Len(gen_result.stdout) : gen_result.stdout[k] \notin Whitespace

\* C1: a run that ends without an uncaught exception exits with 0 or 1, and
\* with 0 exactly when the status query printed nothing or the commit
\* succeeded with a generated message.
C1_ExitCode ==
    (pc = "exited" /\ ~uncaught) =>
        /\ exit_code \in {0, 1}
        /\ exit_code = 0 <=>
              \/ seen.status = "clean"
              \/ committed /\ Generated

\* a commit made with the fallback message ends the run with status 1
C1_Witness ==
    /\ pc = "exited"
    /\ ~uncaught
    /\ committed
    /\ FellBack
    /\ exit_code = 1

\* C2: after any fallback the run reaches the commit step before it ends,
\* git commit receives exactly the default message, and a commit that
\* succeeds ends the run with status 1.
C2_FallbackCommitsDefault ==
    FellBack =>
        /\ pc = "exited" => Has("git commit -m")
        /\ Has("git commit -m") => commit_arg.ok /\ commit_arg.arg = default_commit_msg
        /\ (pc = "exited" /\ committed) => exit_code = 1

\* the generator timed out and the built-in default message was committed
C2_Witness ==
    /\ pc = "exited"
    /\ TimedOut
    /\ committed
    /\ commit_arg.arg = DEFAULT_COMMIT_MESSAGE
    /\ exit_code = 1

\* commands that leave the commit as it is
AfterCommitCommands ==
    {"git log -1 --oneline", "git status --porcelain", "git status --short",
     "git branch --show-current", "git push origin"}

\* C3: once the commit has succeeded, the exit code is the one the generator
\* outcome fixes, whatever AUTO_PUSH, the branch query, the push and the
\* remaining-changes check give, and nothing issued afterwards touches the
\* commit.
C3_PushAndRemainingNeutral ==
    [][committed =>
          /\ committed'
          /\ gemini_success' = gemini_success
          /\ tree' = tree /\ index' = index
          /\ pc' = "exited" => exit_code' = IF gemini_success THEN 0 ELSE 1
          /\ \A k \in (Len(cmds) + 1)..Len(cmds') : cmds'[k] \in AfterCommitCommands]_vars

\* a failed push after a commit with a generated message: the run exits 0
C3_Witness ==
    /\ pc = "exited"
    /\ committed
    /\ seen.push = "failed"
    /\ tree # EmptyText
    /\ Generated
    /\ exit_code = 0

SideEffects == {"git add -A", "gemini", "git commit -m", "git push origin"}

\* C4: a failed repository probe, and a failed generator probe, end the run
\* at once with status 1, and no staging, generator call, commit or push
\* has been or will be issued.
C4_EnvironmentErrorsFatal ==
    (seen.repo = "failed" \/ seen.gemini = "failed") =>
        /\ pc = "exited"
        /\ exit_code = 1
        /\ ~uncaught
        /\ \A c \in SideEffects : ~Has(c)

\* changes are pending and the generator is missing
C4_Witness ==
    /\ seen.repo = "ok"
    /\ seen.status = "pending"
    /\ seen.gemini = "failed"
    /\ pc = "exited"
    /\ index = "subset"

\* C5: when the probe succeeds and the status query prints nothing, the run
\* ends at once with status 0 and issues no generator probe, staging,
\* generator call or commit.
C5_NoChangesExitsZero ==
    (seen.repo = "ok" /\ seen.status = "clean") =>
        /\ pc = "exited"
        /\ exit_code = 0
        /\ \A c \in {"command -v gemini", "git add -A", "gemini", "git commit -m"} : ~Has(c)

\* a clean tree in a repository
C5_Witness ==
    /\ seen.repo = "ok"
    /\ seen.status = "clean"
    /\ tree = EmptyText
    /\ pc = "exited"

\* C6: when the generator exits 0 with non-whitespace output, git commit
\* receives exactly strip_quotes of the trimmed output, and a commit that
\* succeeds ends the run with status 0.
C6_GeneratedMessageCommitted ==
    Generated =>
        /\ Has("git commit -m") =>
              /\ commit_arg.ok
              /\ commit_arg.arg = strip_quotes(strip(gen_result.stdout))
        /\ (pc = "exited" /\ committed) => exit_code = 0

\* the generator printed "a" in double quotes and a was committed
C6_Witness ==
    /\ pc = "exited"
    /\ gen_result.stdout = <<DQ, "a", DQ>>
    /\ gen_result.returncode = 0
    /\ committed
    /\ commit_arg.arg = <<"a">>
    /\ exit_code = 0

\* the generator process exited by itself within the timeout, with status 0
\* and some non-whitespace output
ReturnedMessageInTime ==
    /\ ~gen_run.error
    /\ gen_run.returns
    /\ gen_run.elapsed <= GeneratorTimeout
    /\ gen_run.returncode = 0
    /\ \E k \in 1..Len(gen_run.stdout) : gen_run.stdout[k] \notin Whitespace

C12_NoUncaughtException ==
    (pc = "exited" /\ cwd # ".") => ~uncaught

\* C13: "git add -A" is issued exactly in the runs whose first staged-summary
\* query came back empty; when a subset was staged beforehand nothing is staged
\* by the run, and the summary and the diff that go into the prompt are those
\* of that subset (the diff through the binary filter, or empty when the diff
\* query itself raised).
C13_StagingOnlyOnEmptyIndex ==
    /\ Has("git add -A") => seen.stat = "empty"
    /\ (seen.stat = "empty" /\ pc # "stage_all") => Count("git add -A") = 1
    /\ seen.stat = "nonempty" => ~Has("git add -A")
    /\ (seen.stat = "nonempty" /\ pc \in {"build_prompt", "generate", "commit"}) =>
           /\ index \in {"subset", "all"}
           /\ changes = strip(StagedStat(index))
           /\ detailed_changes \in {EmptyText,
                                     filter_binary_diff(strip_text(StagedDiff(tree, index)))}

C13_Witness ==
    /\ pc = "generate"
    /\ seen.stat = "nonempty"
    /\ index = "subset"
    /\ detailed_changes = <<H1, TXT>>
    /\ detailed_changes # filter_binary_diff(strip_text(StagedDiff(tree, "all")))
    /\ ~Has("git add -A")

\* C16: the detail section of the prompt is the filtered diff when that is at
\* most 5000 characters long (5000 itself included) and 5000 characters plus
\* the elision marker when it is longer; the test is made on the diff after
\* the binary filter, and the section is never longer than 5000 plus the
\* marker.
C16_DetailBounded ==
    pc \in {"build_prompt", "generate", "commit"} =>
        /\ detailed_changes \in {EmptyText,
                                  filter_binary_diff(strip_text(StagedDiff(tree, index)))}
        /\ detail_len <= MaxDetailChars + ElisionMarkerLen
        /\ elided <=> text_len(detailed_changes) > MaxDetailChars
        /\ elided => detail_len = MaxDetailChars + ElisionMarkerLen
        /\ ~elided => detail_len = text_len(detailed_changes)

\* a staged diff longer than 5000 whose filtered text is exactly 5000 long
C16_Witness ==
    /\ pc = "generate"
    /\ text_len(strip_text(StagedDiff(tree, index))) > MaxDetailChars
    /\ text_len(detailed_changes) = MaxDetailChars
    /\ ~elided
    /\ detail_len = MaxDetailChars

\* C17: once git commit has failed the run is over with exit code 1,
\* whatever the generator did, and none of the commands that follow a commit
\* has been issued; git push is issued only with AUTO_PUSH on, after a
\* successful commit and a successful git branch --show-current that printed
\* a name, and it pushes to the branch of that name.
C17_FailedCommitTerminal ==
    /\ (Has("git commit -m") /\ ~committed) =>
           /\ pc = "exited" /\ exit_code = 1 /\ ~uncaught
           /\ \A c \in AfterCommitCommands \ {"git status --porcelain"} : ~Has(c)
           /\ Count("git status --porcelain") = 1
    /\ Has("git push origin") =>
           /\ auto_push
           /\ committed
           /\ seen.branch = "ok"
           /\ branch # <<>>
           /\ push_ref = branch
    /\ Count("git push origin") <= 1

\* the commit fails after the generator has produced a message, with
\* AUTO_PUSH on
C17_Witness ==
    /\ Has("git commit -m")
    /\ ~committed
    /\ gemini_success
    /\ auto_push
    /\ pc = "exited"
    /\ exit_code = 1

\* C18: every run ends, with exit code 0 or 1; a generator process that
\* never returns does not keep the run from ending.
C18_Terminates ==
    <>(pc = "exited" /\ exit_code \in {0, 1})

\* a run that is over and whose generator process never returned: the call
\* timed out and the commit was attempted
C18_Witness ==
    /\ pc = "exited"
    /\ exit_code \in {0, 1}
    /\ ~gen_run.error /\ ~gen_run.returns
    /\ TimedOut
    /\ Has("git commit -m")

\* C19: whenever git commit is issued, the message it is given holds a
\* character that is not whitespace.
C19_MessageNonEmpty ==
    Has("git commit -m") =>
        /\ \E k \in 1..Len(commit_message) : commit_message[k] \notin Whitespace
        /\ \E k \in 1..Len(commit_arg.arg) : commit_arg.arg[k] \notin Whitespace

\* every c1 in the command history stands before every c2
Precedes(c1, c2) ==
    \A i, j \in 1..Len(cmds) : (cmds[i] = c1 /\ cmds[j] = c2) => i < j

\* the repository, pending-changes and generator-availability checks passed
ChecksPassed ==
    seen.repo = "ok" /\ seen.status = "pending" /\ seen.gemini = "ok"

\* C20: staging, the generator call, the commit and the push are each issued
\* at most once in a run; staging comes before the generator call; the commit
\* is attempted exactly once in every finished run that passed the three
\* checks and in no other, after the generator call has returned or fallen
\* back; a push comes after the commit, and only after one that succeeded.
C20_OnceAndInOrder ==
    /\ \A c \in {"git add -A", "gemini", "git commit -m", "git push origin"} : Count(c) <= 1
    /\ Precedes("git add -A", "gemini")
    /\ Precedes("gemini", "git commit -m")
    /\ Precedes("git commit -m", "git push origin")
    /\ Has("git commit -m") =>
           /\ ChecksPassed
           /\ Has("gemini")
           /\ gen_result.raised # "not_run"
    /\ (pc = "exited" /\ ChecksPassed) => Count("git commit -m") = 1
    /\ Has("git push origin") => (Has("git commit -m") /\ committed)

\* a finished run that staged, fell back, committed and pushed
C20_Witness ==
    /\ pc = "exited"
    /\ ChecksPassed
    /\ FellBack
    /\ cmds[Len(cmds)] = "git push origin"
    /\ Count("git add -A") = 1
    /\ Count("gemini") = 1
    /\ Count("git commit -m") = 1

\* --------------------------------------- claims about filter_binary_diff

\* the block a line belongs to: from the last header at or before k (none:
\* the line precedes every block) to the line before the next header
BlockStart(lines, k) ==
    LET hs == {h \in 1..k : IsHeader(lines[h])}
    IN  IF hs = {} THEN 0 ELSE CHOOSE h \in hs : \A g \in hs : g <= h

BlockEnd(lines, k) ==
    LET hs == {h \in (k + 1)..Len(lines) : IsHeader(lines[h])}
    IN  IF hs = {} THEN Len(lines) ELSE (CHOOSE h \in hs : \A g \in hs : h <= g) - 1

\* line k lies in a block one of whose body lines is a binary marker
InBinaryBlock(lines, k) ==
    /\ BlockStart(lines, k) > 0
    /\ \E m \in (BlockStart(lines, k) + 1)..BlockEnd(lines, k) : IsBinaryLine(lines[m])

InTextualBlock(lines, k) ==
    BlockStart(lines, k) > 0 /\ ~InBinaryBlock(lines, k)

\* the lines outside binary blocks, in order
RECURSIVE TextualLines(_, _)
TextualLines(lines, k) ==
    IF k > Len(lines) THEN <<>>
    ELSE (IF InBinaryBlock(lines, k) THEN <<>> ELSE <<lines[k]>>) \o TextualLines(lines, k + 1)

\* C7: a diff none of whose lines holds both "Binary files" and "differ"
\* comes out of filter_binary_diff line for line as it went in.
C7_IdentityWithoutBinary ==
    (fpc # "input" /\ \A k \in 1..Len(diff_in) : ~IsBinaryLine(diff_in[k])) =>
        filtered = diff_in

\* C8: for a diff that starts with a block and mixes textual and binary
\* blocks, the output is the textual blocks, whole and in order, and nothing
\* else.
C8_MixKeepsTextualBlocks ==
    (/\ fpc # "input"
     /\ IsHeader(diff_in[1])
     /\ \A k \in 1..Len(diff_in) : diff_in[k] # HB
     /\ \E k \in 1..Len(diff_in) : InBinaryBlock(diff_in, k)
     /\ \E k \in 1..Len(diff_in) : InTextualBlock(diff_in, k)) =>
        filtered = join(TextualLines(diff_in, 1))

\* C9: filtering the filtered text changes nothing.
C9_FilterIdempotent ==
    fpc = "refiltered" => refiltered = filtered

\* some line of the block of line k, its header included, holds both
\* "Binary files" and "differ"
BlockHasBinaryLine(lines, k) ==
    /\ BlockStart(lines, k) > 0
    /\ \E m \in BlockStart(lines, k)..BlockEnd(lines, k) : IsBinaryLine(lines[m])

\* C14 as stated: a diff that starts with a block and each of whose blocks
\* has a line, header or not, with both "Binary files" and "differ" is
\* filtered to the empty text.
C14_OnlyBinaryAnyLine ==
    (/\ fpc # "input"
     /\ \A k \in 1..Len(diff_in) : BlockHasBinaryLine(diff_in, k)) =>
        filtered = EmptyText

\* C14: a diff that starts with a block and each of whose blocks has a line
\* after its header with both "Binary files" and "differ" is filtered to the
\* empty text, however many blocks there are.
C14_OnlyBinaryBlocks ==
    (/\ fpc # "input"
     /\ \A k \in 1..Len(diff_in) : InBinaryBlock(diff_in, k)) =>
        filtered = EmptyText

C14_Witness ==
    /\ fpc # "input"
    /\ diff_in = <<H1, BIN, H2, BIN>>
    /\ \A k \in 1..Len(diff_in) : InBinaryBlock(diff_in, k)
    /\ filtered = EmptyText

\* ---------------------------------------------- claims about strip_quotes

\* t is x without the whitespace at its two ends
IsTrimOf(t, x) ==
    /\ t = <<>> \/ (t[1] \notin Whitespace /\ t[Len(t)] \notin Whitespace)
    /\ \E i \in 0..Len(x) :
          /\ i + Len(t) <= Len(x)
          /\ SubSeq(x, i + 1, i + Len(t)) = t
          /\ \A k \in 1..i : x[k] \in Whitespace
          /\ \A k \in (i + Len(t) + 1)..Len(x) : x[k] \in Whitespace

QuoteChars == {SQ, DQ, BQ}

\* t opens and closes with one and the same quote character
Quoted(t) == Len(t) >= 2 /\ t[1] \in QuoteChars /\ t[Len(t)] = t[1]

\* C10: strip_quotes trims the text; when the trimmed text is at least two
\* characters long and opens and closes with the same quote character, the
\* result is what lies between the two, trimmed; otherwise it is the trimmed
\* text; the empty text gives the empty text.
C10_StripQuotes ==
    qpc # "input" =>
        /\ text_in = <<>> => stripped = <<>>
        /\ \A i \in 1..(Len(text_in) + 1), j \in 0..Len(text_in) :
              LET t == SubSeq(text_in, i, j)
              IN  IsTrimOf(t, text_in) =>
                      IF Quoted(t)
                      THEN IsTrimOf(stripped, SubSeq(t, 2, Len(t) - 1))
                      ELSE stripped = t

\* a double-quoted message with a blank inside the quotes
C10_Witness ==
    /\ qpc = "stripped"
    /\ text_in = <<DQ, " ", "a", DQ>>
    /\ stripped = <<"a">>

\* C15 as stated: for every message, strip_quotes of its result is that result.
C15_Idempotent ==
    qpc = "restripped" => restripped = stripped

\* C15: strip_quotes applied to its own result returns that result whenever
\* the result is not itself enclosed in a pair of equal quote characters; a
\* result that is (the message had nested quotes) loses one more layer.
C15_IdempotentUnlessNested ==
    qpc = "restripped" =>
        IF Quoted(stripped)
        THEN IsTrimOf(restripped, SubSeq(stripped, 2, Len(stripped) - 1))
        ELSE restripped = stripped

\* a quoted message stripped twice: the second application changes nothing
C15_Witness ==
    /\ qpc = "restripped"
    /\ text_in = <<DQ, " ", "a", DQ>>
    /\ ~Quoted(stripped)
    /\ stripped = <<"a">>
    /\ restripped = <<"a">>

====
